---- MODULE Spec2Model ----
(***************************************************************************)
(* Model of Home.py, the Streamlit landing page of the Global Economy      *)
(* Dashboard.  A process holds one st.cache_data cache for load_data; each *)
(* session re-runs the script top to bottom on every render cycle: it      *)
(* loads the table (through the cache), renders the header, halts with a   *)
(* warning on an empty table, and otherwise renders the four metrics, the  *)
(* static sections and the dataset preview.                                *)
(*                                                                         *)
(* Encoding.  An optional value is a sequence of length 0 or 1: <<>> is    *)
(* "none" (an absent file, no cache entry, a null cell) and <<v>> is v.    *)
(* A string the page shows is a sequence of one-character strings.         *)
(* A table is [cols |-> sequence of column names, rows |-> sequence of     *)
(* rows], a row being a function from the table's columns to cells.        *)
(***************************************************************************)
EXTENDS Integers, Sequences, FiniteSets, TLC

\* ------------------------------------------------------------ bounds
\* Number of concurrent sessions (render contexts) of the process.
NumSessions == 2
\* Longest table of the exhaustive family of summary-statistics tables.
MaxRows == 2
\* The long tables have PreviewRows - 1 .. PreviewRows + BulkExtra rows.
BulkExtra == 2
\* Cap on executions of load_data's body per process (the counter is
\* unbounded only when memoization is broken).
MaxCalls == 2

\* ------------------------------------------------- program constants
\* df[show_cols].head(50)
PreviewRows == 50

DATA_PATH == "data/processed/econ_option_a.parquet"

ETL_COMMAND == "python scripts/etl_worldbank.py"

\* The allowlist of the dataset preview, in its order.
PreviewCols == <<"country", "country_code", "year", "indicator_name", "value", "source">>

\* ------------------------------------------------------------ values
None == <<>>

Some(v) == <<v>>

Range(f) == {f[i] : i \in DOMAIN f}

\* pd.DataFrame(): no columns, no rows.
EmptyDF == [cols |-> <<>>, rows |-> <<>>]

\* DataFrame.empty: true when any axis has length 0.
DfEmpty(df) == Len(df.cols) = 0 \/ Len(df.rows) = 0

\* "c" in df.columns
HasCol(df, c) == \E i \in 1..Len(df.cols) : df.cols[i] = c

\* df[c]: the column's cells in row order.
Column(df, c) == [i \in 1..Len(df.rows) |-> df.rows[i][c]]

\* Series.dropna().unique(): the distinct non-null values.
DropNaUnique(col) == {col[i][1] : i \in {j \in DOMAIN col : col[j] # None}}

NUniqueRowCount(col) == Len(col)

\* Series.nunique(): the number of distinct non-null values.
NUnique(col) == Cardinality(DropNaUnique(col))

\* Series.min() / Series.max() skip nulls; on an all-null column they are NaN,
\* modelled as None.
SeriesMin(col) ==
    LET vs == DropNaUnique(col)
    IN  IF vs = {} THEN None ELSE Some(CHOOSE v \in vs : \A w \in vs : v <= w)

SeriesMax(col) ==
    LET vs == DropNaUnique(col)
    IN  IF vs = {} THEN None ELSE Some(CHOOSE v \in vs : \A w \in vs : v >= w)

\* ----------------------------------------------------- string formats
DigitChars == <<"0", "1", "2", "3", "4", "5", "6", "7", "8", "9">>

RECURSIVE ToStr(_)
\* str(n) of a non-negative integer, as in f"{year_min}".
ToStr(n) ==
    IF n < 10 THEN <<DigitChars[n + 1]>>
    ELSE ToStr(n \div 10) \o <<DigitChars[(n % 10) + 1]>>

Pad3(n) == <<DigitChars[(n \div 100) + 1], DigitChars[((n \div 10) % 10) + 1], DigitChars[(n % 10) + 1]>>

RECURSIVE FmtComma(_)
\* f"{n:,}": decimal digits in groups of three separated by commas.
FmtComma(n) ==
    IF n < 1000 THEN ToStr(n)
    ELSE FmtComma(n \div 1000) \o <<",">> \o Pad3(n % 1000)

\* The right-arrow and em-dash characters of the page, written in ASCII.
Arrow == "->"

EmDash == <<"--">>

\* f"{year_min} (arrow) {year_max}"
FmtYears(lo, hi) == ToStr(lo) \o <<" ", Arrow, " ">> \o ToStr(hi)

\* ------------------------------------------------------ script output
\* The empty-table branch: header, st.warning, st.stop().
HaltView ==
    [ widgets |-> <<"header", "warning">>,
      warning |-> Some([path |-> DATA_PATH, command |-> ETL_COMMAND]),
      metrics |-> <<>>,
      preview |-> None,
      err     |-> "none" ]

\* What a session has rendered before the empty check ran.
BlankView ==
    [ widgets |-> <<>>, warning |-> None, metrics |-> <<>>, preview |-> None, err |-> "none" ]

\* The widgets of a complete render, in script order.
ReadyWidgets ==
    <<"header", "metric:Countries", "metric:Indicators", "metric:Years", "metric:Rows",
      "divider", "about", "howto", "tip", "divider", "dashboards", "card:macro",
      "card:cost_of_living", "card:rankings_map", "card:health_index", "divider",
      "data_source", "preview", "caption">>

\* show_cols = [c for c in [...] if c in df.columns]
ShowColsTableOrder(df) ==
    LET InList(c) == c \in Range(PreviewCols) IN SelectSeq(df.cols, InList)

ShowCols(df) ==
    LET Present(c) == HasCol(df, c) IN SelectSeq(PreviewCols, Present)

DfHeadAll(rows, n) == rows

\* DataFrame.head(n): the first n rows, all of them when there are fewer.
DfHead(rows, n) == SubSeq(rows, 1, IF Len(rows) < n THEN Len(rows) ELSE n)

\* df[show_cols].head(50)
Preview(df) ==
    LET sc == ShowCols(df)
    IN  [ cols |-> sc,
          rows |-> DfHead([i \in 1..Len(df.rows) |-> [c \in Range(sc) |-> df.rows[i][c]]],
                        PreviewRows) ]

\* countries = df["country_code"].nunique() if "country_code" in df.columns else 0
Countries(df) == IF HasCol(df, "country_code") THEN NUnique(Column(df, "country_code")) ELSE 0

\* indicators = sorted(df["indicator_name"].dropna().unique().tolist()) if ... else []
\* Only len(indicators) is used; the sort does not change it.
Indicators(df) == IF HasCol(df, "indicator_name") THEN DropNaUnique(Column(df, "indicator_name")) ELSE {}

\* int(x) raises ValueError on NaN; on a year it is the year.
IntRaises(x) == x = None

PyInt(x) == x[1]

\* The script after the empty check, for a non-empty table.  int() of the NaN
\* that min() gives on an all-null year column raises ValueError: the script
\* run ends there, before any metric is drawn.
ReadyView(df) ==
    LET hasYear == HasCol(df, "year")
        ymin    == IF hasYear THEN SeriesMin(Column(df, "year")) ELSE None
        ymax    == IF hasYear THEN SeriesMax(Column(df, "year")) ELSE None
        years   == IF hasYear THEN FmtYears(PyInt(ymin), PyInt(ymax)) ELSE EmDash
    IN  IF hasYear /\ (IntRaises(ymin) \/ IntRaises(ymax))
        THEN [BlankView EXCEPT !.widgets = <<"header">>, !.err = "ValueError"]
        ELSE [ widgets |-> ReadyWidgets,
               warning |-> None,
               metrics |-> << [label |-> "Countries",  value |-> FmtComma(Countries(df))],
                              [label |-> "Indicators", value |-> FmtComma(Cardinality(Indicators(df)))],
                              [label |-> "Years",      value |-> years],
                              [label |-> "Rows",       value |-> FmtComma(Len(df.rows))] >>,
               preview |-> Some(Preview(df)),
               err     |-> "none" ]

\* ------------------------------------------------------------ tables
AllColumns == Range(PreviewCols) \cup {"indicator_code"}

CountryCodes == {Some("US"), Some("FR"), None}

IndicatorNames == {Some("GDP"), Some("Inflation"), None}

Years == {Some(2000), Some(2001), None}

StatColumns == <<"country_code", "year", "indicator_name">>

\* Every row over the columns P of the three summarised columns.
StatRows(P) ==
    { [c \in P |-> CASE c = "country_code" -> cc [] c = "indicator_name" -> ind [] OTHER -> y]
        : cc \in CountryCodes, ind \in IndicatorNames, y \in Years }

\* Every table of at most MaxRows rows over every subset of the summarised
\* columns (no rows and no columns included).
StatTables ==
    UNION { LET InP(c) == c \in P
            IN  { [cols |-> SelectSeq(StatColumns, InP), rows |-> r]
                    : r \in UNION {[1..n -> StatRows(P)] : n \in 0..MaxRows} }
          : P \in SUBSET Range(StatColumns) }

\* The example of the specification: country_code US, US, FR and
\* indicator_name GDP, Inflation, GDP.
ExampleTable ==
    [ cols |-> <<"country_code", "indicator_name", "year">>,
      rows |-> << [country_code |-> Some("US"), indicator_name |-> Some("GDP"),       year |-> Some(2000)],
                  [country_code |-> Some("US"), indicator_name |-> Some("Inflation"), year |-> Some(2001)],
                  [country_code |-> Some("FR"), indicator_name |-> Some("GDP"),       year |-> None] >> ]

\* A long-format record with every column of the ETL output and one more.
FullRow(i) ==
    [ country        |-> Some(IF i % 2 = 0 THEN "United States" ELSE "France"),
      country_code   |-> Some(IF i % 2 = 0 THEN "US" ELSE "FR"),
      year           |-> Some(2000 + (i % 3)),
      indicator_name |-> Some(IF i % 3 = 0 THEN "GDP" ELSE "Inflation"),
      value          |-> Some(i),
      source         |-> Some("World Bank WDI"),
      indicator_code |-> Some("NY.GDP.MKTP.CD") ]

RECURSIVE Perms(_)
\* Every ordering of the set S as a sequence.
Perms(S) ==
    IF S = {} THEN {<<>>}
    ELSE UNION { {<<x>> \o p : p \in Perms(S \ {x})} : x \in S }

\* One-row tables over every subset of the columns in every column order.
ColumnTables ==
    { [cols |-> p, rows |-> << [c \in Range(p) |-> FullRow(1)[c]] >>]
        : p \in UNION {Perms(P) : P \in SUBSET AllColumns} }

\* Tables around the preview limit, the rows numbered in their value column.
BulkTables ==
    { [cols |-> <<"indicator_code">> \o PreviewCols, rows |-> [i \in 1..n |-> FullRow(i)]]
        : n \in (PreviewRows - 1)..(PreviewRows + BulkExtra) }

\* The parquet files the render specification starts from.
RenderTables == StatTables \cup ColumnTables \cup BulkTables \cup {ExampleTable}

\* A file with columns and no rows, and one whose year column is all null.
NoRowsTable == [cols |-> PreviewCols, rows |-> <<>>]

NullYearTable ==
    [ cols |-> <<"year", "country_code">>,
      rows |-> << [year |-> None, country_code |-> Some("US")] >> ]

\* The parquet files the ETL command writes in the process specification.
EtlTables == {NoRowsTable, NullYearTable, ExampleTable}

\* ------------------------------------------------------------- state
Sessions == 1..NumSessions

VARIABLES
    file,          \* the parquet file at DATA_PATH: None (absent) or Some(table)
    cache,         \* st.cache_data's entries for load_data: {[key, value]}
    lock,          \* holder of the cache's compute lock for the key, 0 when free
    calls,         \* executions of load_data's body in this process
    reads,         \* pd.read_parquet calls in this process
    first,         \* history: the result of the first load_data execution
    pc,            \* per session: position in the script run
    phase,         \* per session: AWAITING_DATA, READY or HALTED
    df,            \* per session: the loaded table, None before the load returns
    how,           \* history, per session: "hit", "recheck" (cache) or "body" (computed)
    absentAtLoad,  \* history, per session: the file was absent when load returned
    view           \* per session: what the script run has drawn

vars == <<file, cache, lock, calls, reads, first, pc, phase, df, how, absentAtLoad, view>>

procVars == <<file, cache, lock, calls, reads, first>>

\* ----------------------------------------------------- st.cache_data
CacheReadNever(c, key) == None

\* The cached value for the key, None when there is no entry.
CacheRead(c, key) ==
    IF \E e \in c : e.key = key
    THEN Some((CHOOSE e \in c : e.key = key).value)
    ELSE None

\* Store the value under the key, replacing an entry the key already has.
CacheWrite(c, key, v) == {e \in c : e.key # key} \cup {[key |-> key, value |-> v]}

LoadDataInverted(f) ==
    IF f # None
    THEN [err |-> "none", df |-> EmptyDF, read |-> 0]
    ELSE [err |-> "FileNotFoundError", df |-> EmptyDF, read |-> 1]

\* load_data's body: the empty DataFrame when the path does not exist, else
\* the parquet file's table unchanged.  The body runs as one step: the file
\* is a valid parquet file written or removed out of band, between steps.
LoadData(f) ==
    IF f = None
    THEN [err |-> "none", df |-> EmptyDF, read |-> 0]
    ELSE [err |-> "none", df |-> f[1], read |-> 1]

\* ----------------------------------------------------------- actions
\* The load returns table t to session s.
Loaded(s, t, by) ==
    /\ df' = [df EXCEPT ![s] = Some(t)]
    /\ how' = [how EXCEPT ![s] = by]
    /\ absentAtLoad' = [absentAtLoad EXCEPT ![s] = (file = None)]
    /\ pc' = [pc EXCEPT ![s] = "loaded"]

\* df = load_data(DATA_PATH): the cached function first looks the key up
\* without the lock.
Lookup(s) ==
    /\ pc[s] = "start"
    /\ LET r == CacheRead(cache, DATA_PATH)
       IN  IF r # None
           THEN Loaded(s, r[1], "hit")
           ELSE /\ pc' = [pc EXCEPT ![s] = "miss"]
                /\ UNCHANGED <<df, how, absentAtLoad>>
    /\ UNCHANGED <<procVars, phase, view>>

AcquireNoLock(s) ==
    /\ pc[s] = "miss"
    /\ pc' = [pc EXCEPT ![s] = "compute"]
    /\ lock' = s
    /\ UNCHANGED <<file, cache, calls, reads, first, phase, view, df, how, absentAtLoad>>

\* On a miss the session takes the key's compute lock and looks the key up
\* again: another session may have computed the value meanwhile.
Acquire(s) ==
    /\ pc[s] = "miss"
    /\ lock = 0
    /\ LET r == CacheRead(cache, DATA_PATH)
       IN  IF r # None
           THEN /\ Loaded(s, r[1], "recheck")
                /\ UNCHANGED lock
           ELSE /\ pc' = [pc EXCEPT ![s] = "compute"]
                /\ lock' = s
                /\ UNCHANGED <<df, how, absentAtLoad>>
    /\ UNCHANGED <<file, cache, calls, reads, first, phase, view>>

\* Holding the lock, the session runs load_data's body, stores the result
\* and releases the lock.  An exception of the body is not cached and ends
\* the script run.
Compute(s) ==
    /\ pc[s] = "compute"
    /\ calls < MaxCalls
    /\ LET r == LoadData(file)
       IN  /\ calls' = calls + 1
           /\ reads' = reads + r.read
           /\ IF r.err = "none"
              THEN /\ cache' = CacheWrite(cache, DATA_PATH, r.df)
                   /\ first' = IF first = None THEN Some(r.df) ELSE first
                   /\ Loaded(s, r.df, "body")
                   /\ UNCHANGED view
              ELSE /\ pc' = [pc EXCEPT ![s] = "done"]
                   /\ view' = [view EXCEPT ![s].err = r.err]
                   /\ absentAtLoad' = [absentAtLoad EXCEPT ![s] = (file = None)]
                   /\ how' = [how EXCEPT ![s] = "body"]
                   /\ UNCHANGED <<cache, first, df>>
    /\ lock' = IF lock = s THEN 0 ELSE lock
    /\ UNCHANGED <<file, phase>>

CheckEmptyNoStop(s) ==
    /\ pc[s] = "loaded"
    /\ view' = [view EXCEPT ![s] = IF DfEmpty(df[s][1]) THEN HaltView
                                   ELSE [BlankView EXCEPT !.widgets = <<"header">>]]
    /\ phase' = [phase EXCEPT ![s] = IF DfEmpty(df[s][1]) THEN "HALTED" ELSE "READY"]
    /\ pc' = [pc EXCEPT ![s] = "ready"]
    /\ UNCHANGED <<procVars, df, how, absentAtLoad>>

\* The header, then `if df.empty`: the warning and st.stop(), or on to the
\* rest of the page.
CheckEmpty(s) ==
    /\ pc[s] = "loaded"
    /\ IF DfEmpty(df[s][1])
       THEN /\ view' = [view EXCEPT ![s] = HaltView]
            /\ phase' = [phase EXCEPT ![s] = "HALTED"]
            /\ pc' = [pc EXCEPT ![s] = "done"]
       ELSE /\ view' = [view EXCEPT ![s] = [BlankView EXCEPT !.widgets = <<"header">>]]
            /\ phase' = [phase EXCEPT ![s] = "READY"]
            /\ pc' = [pc EXCEPT ![s] = "ready"]
    /\ UNCHANGED <<procVars, df, how, absentAtLoad>>

\* Quick stats, metrics, static sections, preview, caption.
RenderReady(s) ==
    /\ pc[s] = "ready"
    /\ view' = [view EXCEPT ![s] = ReadyView(df[s][1])]
    /\ pc' = [pc EXCEPT ![s] = "done"]
    /\ UNCHANGED <<procVars, phase, df, how, absentAtLoad>>

RerunKeepPhase(s) ==
    /\ pc[s] = "done"
    /\ pc' = [pc EXCEPT ![s] = "start"]
    /\ df' = [df EXCEPT ![s] = None]
    /\ how' = [how EXCEPT ![s] = "none"]
    /\ absentAtLoad' = [absentAtLoad EXCEPT ![s] = FALSE]
    /\ view' = [view EXCEPT ![s] = BlankView]
    /\ UNCHANGED <<procVars, phase>>

\* A user interaction re-runs the script from its first line.
Rerun(s) ==
    /\ pc[s] = "done"
    /\ pc' = [pc EXCEPT ![s] = "start"]
    /\ phase' = [phase EXCEPT ![s] = "AWAITING_DATA"]
    /\ df' = [df EXCEPT ![s] = None]
    /\ how' = [how EXCEPT ![s] = "none"]
    /\ absentAtLoad' = [absentAtLoad EXCEPT ![s] = FALSE]
    /\ view' = [view EXCEPT ![s] = BlankView]
    /\ UNCHANGED procVars

\* The ETL command, run out of band, (re)writes the parquet file.
EtlWrite ==
    /\ \E t \in EtlTables : file # Some(t) /\ file' = Some(t)
    /\ UNCHANGED <<cache, lock, calls, reads, first, pc, phase, df, how, absentAtLoad, view>>

\* The parquet file is removed.
RemoveFile ==
    /\ file # None
    /\ file' = None
    /\ UNCHANGED <<cache, lock, calls, reads, first, pc, phase, df, how, absentAtLoad, view>>

\* ----------------------------------------------------- specifications
InitProcess ==
    /\ cache = {}
    /\ lock = 0
    /\ calls = 0
    /\ reads = 0
    /\ first = None
    /\ pc = [s \in Sessions |-> "start"]
    /\ phase = [s \in Sessions |-> "AWAITING_DATA"]
    /\ df = [s \in Sessions |-> None]
    /\ how = [s \in Sessions |-> "none"]
    /\ absentAtLoad = [s \in Sessions |-> FALSE]
    /\ view = [s \in Sessions |-> BlankView]

\* A fresh process; the file absent or as some ETL run left it.
Init ==
    /\ file \in {None} \cup {Some(t) : t \in EtlTables}
    /\ InitProcess

Next ==
    \/ \E s \in Sessions : Lookup(s)
    \/ \E s \in Sessions : Acquire(s)
    \/ \E s \in Sessions : Compute(s)
    \/ \E s \in Sessions : CheckEmpty(s)
    \/ \E s \in Sessions : RenderReady(s)
    \/ \E s \in Sessions : Rerun(s)
    \/ EtlWrite
    \/ RemoveFile

\* The process: concurrent sessions, the file changing under them.
Spec == Init /\ [][Next]_vars

\* One session rendering a file that does not change.
InitRender ==
    /\ file \in {Some(t) : t \in RenderTables}
    /\ InitProcess

NextRender ==
    \/ Lookup(1)
    \/ Acquire(1)
    \/ Compute(1)
    \/ CheckEmpty(1)
    \/ RenderReady(1)
    \/ Rerun(1)

SpecRender == InitRender /\ [][NextRender]_vars

\* ------------------------------------------------------------ claims
\* The session's script run is over.
Done(s) == pc[s] = "done"

\* The table session s rendered is not empty: it has a row and a column.
NonEmptyLoaded(s) == df[s] # None /\ Len(df[s][1].rows) > 0 /\ Len(df[s][1].cols) > 0

EmptyLoaded(s) == df[s] # None /\ (Len(df[s][1].rows) = 0 \/ Len(df[s][1].cols) = 0)

\* The non-null values of column c among the rows of table t.
ValuesOf(t, c) == {t.rows[i][c][1] : i \in {j \in 1..Len(t.rows) : t.rows[j][c] # None}}

\* The session drew the four metrics, in their order.
MetricsShown(s) ==
    /\ Len(view[s].metrics) = 4
    /\ view[s].metrics[1].label = "Countries"
    /\ view[s].metrics[2].label = "Indicators"
    /\ view[s].metrics[3].label = "Years"
    /\ view[s].metrics[4].label = "Rows"

C2_Memoized ==
    /\ reads <= 1
    /\ \A s \in Sessions : df[s] # None => (first # None /\ df[s] = first)

C2_Witness ==
    \E s \in Sessions :
        /\ how[s] = "hit" /\ Done(s) /\ reads = 1
        /\ file # first /\ df[s] = first

\* C3 as stated: in every render cycle, if the file does not exist when the
\* load returns, the Loaded Table is the empty table.
C3_AbsentMeansEmpty ==
    \A s \in Sessions : (df[s] # None /\ absentAtLoad[s]) => EmptyLoaded(s)

\* C3 amended: if the file does not exist when load_data's body runs (the
\* cache has no entry for the path), the load returns the empty table and
\* raises nothing; a load served from the cache returns the table of the
\* first load, whether or not the file still exists.
C3_AbsentAtBodyMeansEmpty ==
    \A s \in Sessions :
        /\ (how[s] = "body" /\ absentAtLoad[s]) => (EmptyLoaded(s) /\ view[s].err = "none")
        /\ (how[s] \in {"hit", "recheck"}) => (df[s] # None /\ df[s] = first)

C3_Witness ==
    \E s, t \in Sessions :
        /\ how[s] = "body" /\ absentAtLoad[s] /\ EmptyLoaded(s)
        /\ how[t] = "hit" /\ file # None

\* C4: for every non-empty table the render raises no error and completes
\* the READY path: the four metrics, the static sections and the preview.
C4_RenderNeverRaises ==
    \A s \in Sessions :
        (Done(s) /\ NonEmptyLoaded(s)) =>
            /\ view[s].err = "none"
            /\ MetricsShown(s)
            /\ {"about", "howto", "dashboards", "data_source", "preview", "caption"}
                  \subseteq Range(view[s].widgets)
            /\ view[s].preview # None

\* C5: for a non-empty table a summary value whose column is absent is its
\* placeholder (Countries 0, Indicators 0, Years the em-dash), never an
\* error, and with a year column the Years metric is "{min} -> {max}" of
\* the year values, min <= max.
C5_PlaceholdersAndYears ==
    \A s \in Sessions :
        (Done(s) /\ NonEmptyLoaded(s)) =>
            LET t == df[s][1]
                m == view[s].metrics
            IN  /\ view[s].err = "none"
                /\ MetricsShown(s)
                /\ ~HasCol(t, "country_code") => m[1].value = <<"0">>
                /\ ~HasCol(t, "indicator_name") => m[2].value = <<"0">>
                /\ ~HasCol(t, "year") => m[3].value = <<"--">>
                /\ HasCol(t, "year") =>
                      \E lo, hi \in ValuesOf(t, "year") :
                          /\ lo <= hi
                          /\ \A y \in ValuesOf(t, "year") : lo <= y /\ y <= hi
                          /\ m[3].value = ToStr(lo) \o <<" ", "->", " ">> \o ToStr(hi)

\* C6: whenever the metrics are drawn, Countries is the number of distinct
\* (non-null) country_code values and Indicators the number of distinct
\* (non-null) indicator names, not the row count, which is the Rows metric;
\* the example table gives Countries 2, Indicators 2, Rows 3.
C6_DistinctCounts ==
    \A s \in Sessions :
        (Done(s) /\ df[s] # None /\ MetricsShown(s)) =>
            LET t == df[s][1]
                m == view[s].metrics
            IN  /\ HasCol(t, "country_code") =>
                      m[1].value = FmtComma(Cardinality(ValuesOf(t, "country_code")))
                /\ HasCol(t, "indicator_name") =>
                      m[2].value = FmtComma(Cardinality(ValuesOf(t, "indicator_name")))
                /\ m[4].value = FmtComma(Len(t.rows))
                /\ t = ExampleTable =>
                      (m[1].value = <<"2">> /\ m[2].value = <<"2">> /\ m[4].value = <<"3">>)

C6_Witness ==
    \E s \in Sessions :
        /\ Done(s) /\ df[s] = Some(ExampleTable) /\ MetricsShown(s)
        /\ view[s].metrics[1].value = <<"2">>

\* C7: the preview of a table of N rows has min(N, 50) rows, the first
\* min(N, 50) rows of the table in file order.
C7_PreviewRows ==
    \A s \in Sessions :
        (df[s] # None /\ view[s].preview # None) =>
            LET t == df[s][1]
                p == view[s].preview[1]
                n == Len(t.rows)
                k == IF n <= PreviewRows THEN n ELSE PreviewRows
            IN  /\ Len(p.rows) = k
                /\ \A i \in 1..k : \A c \in Range(p.cols) : p.rows[i][c] = t.rows[i][c]

C7_Witness ==
    \E s \in Sessions :
        /\ df[s] # None /\ view[s].preview # None
        /\ Len(df[s][1].rows) > PreviewRows
        /\ Len(view[s].preview[1].rows) = PreviewRows

\* Position of column c in the allowlist.
AllowlistPos(c) == CHOOSE k \in 1..Len(PreviewCols) : PreviewCols[k] = c

\* C8: the preview's columns are exactly the allowlist columns present in
\* the table, in allowlist order whatever the table's column order; no
\* other column appears and there are at most 6.
C8_PreviewColumns ==
    \A s \in Sessions :
        (df[s] # None /\ view[s].preview # None) =>
            LET t == df[s][1]
                p == view[s].preview[1]
            IN  /\ Range(p.cols) =
                      {"country", "country_code", "year", "indicator_name", "value", "source"}
                          \cap Range(t.cols)
                /\ Len(p.cols) <= 6
                /\ \A i, j \in 1..Len(p.cols) :
                      i < j => AllowlistPos(p.cols[i]) < AllowlistPos(p.cols[j])
                /\ \A i \in 1..Len(p.rows) : DOMAIN p.rows[i] = Range(p.cols)

C8_Witness ==
    \E s \in Sessions :
        /\ df[s] # None /\ view[s].preview # None
        /\ df[s][1].cols = <<"source", "indicator_code", "year", "country">>
        /\ view[s].preview[1].cols = <<"country", "year", "source">>

\* A phase change of session s is the entry into a terminal phase from
\* AWAITING_DATA, or the start of the next cycle.
PhaseStep(s) ==
    phase'[s] # phase[s] =>
        \/ phase[s] = "AWAITING_DATA" /\ pc[s] = "loaded" /\ phase'[s] \in {"READY", "HALTED"}
        \/ phase[s] \in {"READY", "HALTED"} /\ Done(s) /\ pc'[s] = "start"
              /\ phase'[s] = "AWAITING_DATA"

PhaseOK(s) ==
    /\ phase[s] \in {"AWAITING_DATA", "READY", "HALTED"}
    /\ pc[s] \in {"start", "miss", "compute", "loaded"} => phase[s] = "AWAITING_DATA"
    /\ (pc[s] \in {"ready", "done"} /\ df[s] # None) =>
          /\ phase[s] = "READY" <=> NonEmptyLoaded(s)
          /\ phase[s] = "HALTED" <=> EmptyLoaded(s)

\* C9: a render cycle starts in AWAITING_DATA and, once its table is
\* loaded, is in exactly one terminal phase: READY iff the table is
\* non-empty, HALTED iff it is empty (file absent, or present with no
\* rows); nothing leaves READY or HALTED within the cycle, and the next
\* cycle starts at AWAITING_DATA.
C9_PhaseMachine ==
    /\ [](\A s \in Sessions : PhaseOK(s))
    /\ [][\A s \in Sessions : PhaseStep(s)]_vars

C9_Witness ==
    \E s \in Sessions :
        /\ phase[s] = "HALTED" /\ df[s] = Some(NoRowsTable)
        /\ how[s] = "hit" /\ file # None

\* C10: when sessions look the path up concurrently, also while it has no
\* entry, the cache ends with one entry for the path, every session gets an
\* equal table, and load_data's body runs at most once.
C10_ConcurrentLookups ==
    /\ calls <= 1
    /\ Cardinality({e \in cache : e.key = DATA_PATH}) <= 1
    /\ \A s, t \in Sessions : (df[s] # None /\ df[t] # None) => df[s] = df[t]
    /\ \A s \in Sessions : df[s] # None => [key |-> DATA_PATH, value |-> df[s][1]] \in cache

C10_Witness ==
    \E s, t \in Sessions :
        /\ how[s] = "body" /\ how[t] = "recheck"
        /\ df[s] # None /\ df[t] = df[s]
====
